---- MODULE Spec2Model ----
(***************************************************************************)
(* State machine of App (src/src/App.tsx): the React state of the          *)
(* component, localStorage's 'token' entry, and the HTTP requests that are *)
(* in flight.  Every event handler and every continuation of an awaited    *)
(* fetch is one action.  The effect on [user] runs with the commit of the  *)
(* handler that changed user.                                              *)
(***************************************************************************)
EXTENDS Integers, Sequences, FiniteSets, TLC

\* ------------------------------------------------------------------ bounds
MaxInFlight == 2

\* ------------------------------------------------------------ value space
\* null of User | null
NoUser == [id |-> 0, username |-> "", role |-> ""]
Teacher == [id |-> 1, username |-> "tina", role |-> "teacher"]
Student == [id |-> 2, username |-> "alice", role |-> "student"]

\* null of Course | null; a Course is abstracted to its id and enrolled flag
NoCourse == [id |-> 0, enrolled |-> FALSE]
Course(i, e) == [id |-> i, enrolled |-> e]

\* course lists the backend may return
Catalogs ==
    { <<>>,
      << Course(1, FALSE) >>,
      << Course(1, TRUE), Course(2, FALSE) >> }

\* null of string | null (error) and of number | null (showConfirmDialog)
NoError == "null"
NoDialog == 0

\* A token string is held as the sequence of its '.'-separated segments;
\* getItem('token') returning null is the empty sequence.
NoToken == << >>
TokTeacher == << "hdr", "eyT", "sig" >>
TokStudent == << "hdr", "eyS", "sig" >>
\* what localStorage.setItem('token', undefined) stores
TokUndefined == << "undefined" >>

\* tokens a login response may carry
ServerTokens == { TokTeacher, TokStudent }
\* what localStorage may hold when the page is loaded
StoredTokens == { NoToken, TokTeacher, TokStudent, TokUndefined }

\* token.split('.')[1]; atob(undefined) reads the string "undefined"
MiddleSegment(tok) == IF Len(tok) >= 2 THEN tok[2] ELSE "undefined"

\* JSON.parse(atob(seg)) succeeds on the segments that are base64 of JSON
Decodable(seg) == seg \in { "eyT", "eyS" }
AtobJson(seg) ==
    CASE seg = "eyT" -> Teacher
      [] seg = "eyS" -> Student
      [] OTHER -> NoUser

\* JSON.parse(atob(token.split('.')[1])) does not throw
TokenUsable(tok) == Decodable(MiddleSegment(tok))
DecodeToken(tok) == AtobJson(MiddleSegment(tok))

\* ------------------------------------------------------- requests, replies
\* auth: the request has an Authorization header, "Bearer " + bearer
\* (bearer = NoToken is the header "Bearer null")
\* stale: a courses request that was issued later has already delivered its
\* response (the program keeps no such record; a request starts not stale)
Req(k, o, a, b, c) ==
    [kind |-> k, origin |-> o, auth |-> a, bearer |-> b, courseId |-> c,
     stale |-> FALSE]
NoReq == Req("none", "", FALSE, NoToken, 0)

\* net = FALSE: fetch rejects.  kind: what response.json() yields --
\* "notjson" (json() throws), "object" (a JSON object without token, not an
\* array), "array" (list), "token" (an object with a token field, tok).
Resp(n, o, k, l, t) == [net |-> n, ok |-> o, kind |-> k, list |-> l, tok |-> t]
NoResp == Resp(FALSE, FALSE, "none", <<>>, NoToken)
NetErr == Resp(FALSE, FALSE, "neterr", <<>>, NoToken)

\* a rejected fetch; a non-success status with a body that is not JSON or
\* is an error object; a success status with an object or with a list
CoursesResponses ==
    {NetErr}
    \cup { Resp(TRUE, FALSE, k, <<>>, NoToken) : k \in {"notjson", "object"} }
    \cup { Resp(TRUE, TRUE, "object", <<>>, NoToken) }
    \cup { Resp(TRUE, TRUE, "array", l, NoToken) : l \in Catalogs }

LoginResponses ==
    {NetErr}
    \cup { Resp(TRUE, FALSE, k, <<>>, NoToken) : k \in {"notjson", "object"} }
    \cup { Resp(TRUE, TRUE, "token", <<>>, t) : t \in ServerTokens }

EnrollResponses ==
    {NetErr} \cup { Resp(TRUE, o, "object", <<>>, NoToken) : o \in BOOLEAN }

\* --------------------------------------------------------------- the state
VARIABLES
    currentView,        \* useState 'login'
    user,               \* useState null
    courses,            \* useState []
    selectedCourse,     \* useState null
    isLoading,          \* useState false
    error,              \* useState null
    showConfirmDialog,  \* useState null
    enrollingCourse,    \* useState false
    token,              \* localStorage 'token'
    net,                \* requests in flight, in the order they were issued
    started,            \* the mount effect has run
    last                \* the step taken last: handler, request, response

vars == << currentView, user, courses, selectedCourse, isLoading, error,
           showConfirmDialog, enrollingCourse, token, net, started, last >>

Step(op, from, req, resp, alert) ==
    [op |-> op, from |-> from, req |-> req, resp |-> resp, alert |-> alert]

Remove(s, i) == SubSeq(s, 1, i - 1) \o SubSeq(s, i + 1, Len(s))

Init ==
    /\ currentView = "login"
    /\ user = NoUser
    /\ courses = <<>>
    /\ selectedCourse = NoCourse
    /\ isLoading = FALSE
    /\ error = NoError
    /\ showConfirmDialog = NoDialog
    /\ enrollingCourse = FALSE
    /\ token \in StoredTokens
    /\ net = <<>>
    /\ started = FALSE
    /\ last = Step("none", "login", NoReq, NoResp, "")

\* ----------------------------------------------------------- fetchCourses
FetchErrorMessage == "Failed to load courses"

\* the request fetchCourses issues: the token is read from localStorage at
\* the time of the call
CoursesRequest(origin, tok) == Req("courses", origin, TRUE, tok, 0)

\* Array.isArray(data) ? data : []
CoerceCourses(resp) == IF resp.kind = "array" THEN resp.list ELSE <<>>

\* variant: a body that is not an array raises (data.map on an object)
ThrowsOnObject(resp) == ~resp.net \/ resp.kind \in {"notjson", "object"}

\* fetch rejected or response.json() threw
Throws(resp) == ~resp.net \/ resp.kind = "notjson"

\* the requests issued before request i are overtaken by its response
MarkOvertaken(n, i) ==
    [ j \in 1..Len(n) |->
        IF j < i /\ n[j].kind = "courses" THEN [n[j] EXCEPT !.stale = TRUE] ELSE n[j] ]

\* -------------------------------------------------------------- the mount
\* line 42: GET /api/courses without an Authorization header
StartupRequestWithBearer == Req("init", "mount", TRUE, token, 0)

StartupRequest == Req("init", "mount", FALSE, NoToken, 0)

\* variant: initializeSession removes a stored token that does not decode
initializeSessionDropsBadToken ==
    /\ ~started
    /\ started' = TRUE
    /\ IF token = NoToken
       THEN /\ currentView' = "login"
            /\ isLoading' = FALSE
            /\ UNCHANGED << user, error, net, token >>
       ELSE IF ~TokenUsable(token)
       THEN /\ token' = NoToken
            /\ UNCHANGED << currentView, isLoading, user, error, net >>
       ELSE /\ user' = DecodeToken(token)
            /\ currentView' = "dashboard"
            /\ isLoading' = TRUE
            /\ error' = NoError
            /\ net' = << StartupRequest, CoursesRequest("effect", token) >>
            /\ UNCHANGED token
    /\ last' = Step("initializeSession", currentView, NoReq, NoResp, "")
    /\ UNCHANGED << courses, selectedCourse, showConfirmDialog, enrollingCourse >>

\* useEffect(..., []) : initializeSession up to its await, then the effect
\* on [user] of the render that follows setUser
initializeSession ==
    /\ ~started
    /\ started' = TRUE
    /\ IF token = NoToken
       THEN \* setCurrentView('login'); setIsLoading(false)
            /\ currentView' = "login"
            /\ isLoading' = FALSE
            /\ UNCHANGED << user, error, net >>
       ELSE IF ~TokenUsable(token)
       THEN \* line 38 throws: the promise rejects, nothing is set
            UNCHANGED << currentView, isLoading, user, error, net >>
       ELSE /\ user' = DecodeToken(token)
            /\ currentView' = "dashboard"
            /\ isLoading' = TRUE
            /\ error' = NoError
            /\ net' = << StartupRequest, CoursesRequest("effect", token) >>
    /\ last' = Step("initializeSession", currentView, NoReq, NoResp, "")
    /\ UNCHANGED << courses, selectedCourse, showConfirmDialog,
                    enrollingCourse, token >>

\* the continuation of initializeSession after its awaits (lines 42-48)
initializeSessionSettle(i, resp) ==
    /\ started
    /\ i \in 1..Len(net)
    /\ net[i].kind = "init"
    /\ net' = Remove(net, i)
    /\ IF Throws(resp)
       THEN \* unhandled rejection: lines 44 and 48 are not reached
            UNCHANGED << courses, isLoading >>
       ELSE /\ courses' = CoerceCourses(resp)
            /\ isLoading' = FALSE
    /\ last' = Step("initializeSessionSettle", currentView, net[i], resp, "")
    /\ UNCHANGED << currentView, user, selectedCourse, error,
                    showConfirmDialog, enrollingCourse, token, started >>

\* ------------------------------------------- fetchCourses, after the await
\* try: setCourses(...)   catch: courses is not touched
CoursesAfterFetch(resp) ==
    IF Throws(resp) THEN courses ELSE CoerceCourses(resp)

\* catch: setError('Failed to load courses')
ErrorAfterFetch(resp) ==
    IF Throws(resp) THEN FetchErrorMessage ELSE error

\* variant: setIsLoading(false) at the end of the try block, no finally
LoadingStuckOnThrow(resp) == IF Throws(resp) THEN isLoading ELSE FALSE

\* variant: a response is dropped when a later request has already answered
DiscardsStale(req, resp) == req.stale

\* fetchCourses keeps no request number: no response is ever discarded
DiscardsResponse(req, resp) == FALSE

\* finally: setIsLoading(false)
LoadingAfterFetch(resp) == FALSE

fetchCoursesSettle(i, resp) ==
    /\ started
    /\ i \in 1..Len(net)
    /\ net[i].kind = "courses"
    /\ net' = IF Throws(resp) THEN Remove(net, i)
               ELSE Remove(MarkOvertaken(net, i), i)
    /\ courses' = IF DiscardsResponse(net[i], resp) THEN courses
                   ELSE CoursesAfterFetch(resp)
    /\ error' = ErrorAfterFetch(resp)
    /\ isLoading' = LoadingAfterFetch(resp)
    /\ last' = Step("fetchCoursesSettle", currentView, net[i], resp, "")
    /\ UNCHANGED << currentView, user, selectedCourse, showConfirmDialog,
                    enrollingCourse, token, started >>

\* <CreateCourse onCourseCreated={fetchCourses} />, rendered for a teacher
\* on the course list
onCourseCreated ==
    /\ started
    /\ currentView \notin {"login", "register"}
    /\ selectedCourse = NoCourse
    /\ user.role = "teacher"
    /\ Len(net) < MaxInFlight
    /\ isLoading' = TRUE
    /\ error' = NoError
    /\ net' = Append(net, CoursesRequest("create", token))
    /\ last' = Step("onCourseCreated", currentView, NoReq, NoResp, "")
    /\ UNCHANGED << currentView, user, courses, selectedCourse,
                    showConfirmDialog, enrollingCourse, token, started >>

\* ------------------------------------------------------------- handleLogin
\* <Login onLogin={handleLogin} /> is rendered in view 'login'
handleLogin ==
    /\ started
    /\ currentView = "login"
    /\ Len(net) < MaxInFlight
    /\ net' = Append(net, Req("login", "form", FALSE, NoToken, 0))
    /\ last' = Step("handleLogin", currentView, NoReq, NoResp, "")
    /\ UNCHANGED << currentView, user, courses, selectedCourse, isLoading,
                    error, showConfirmDialog, enrollingCourse, token, started >>

\* localStorage.setItem('token', data.token) is reached when json() returned;
\* a missing data.token is stored as the string "undefined"
TokenAfterLogin(resp) ==
    IF Throws(resp) THEN token
    ELSE IF resp.kind = "token" THEN resp.tok
    ELSE TokUndefined

\* lines 94-96 are reached and do not throw
LoginSucceeds(resp) ==
    /\ ~Throws(resp)
    /\ resp.kind = "token"
    /\ TokenUsable(resp.tok)

\* variant: the effect sends the token that was stored before the login
EffectRequestStale(stored) == CoursesRequest("effect", token)

\* the request of the effect on [user]: fetchCourses reads the token that is
\* stored when the effect runs
EffectRequest(stored) == CoursesRequest("effect", stored)

handleLoginSettle(i, resp) ==
    /\ started
    /\ i \in 1..Len(net)
    /\ net[i].kind = "login"
    /\ token' = TokenAfterLogin(resp)
    /\ IF LoginSucceeds(resp)
       THEN /\ user' = DecodeToken(resp.tok)
            /\ currentView' = "dashboard"
            \* useEffect [user]: user is a new object, fetchCourses()
            /\ isLoading' = TRUE
            /\ error' = NoError
            /\ net' = Append(Remove(net, i), EffectRequest(token'))
            /\ last' = Step("handleLoginSettle", currentView, net[i], resp, "")
       ELSE /\ net' = Remove(net, i)
            /\ last' = Step("handleLoginSettle", currentView, net[i], resp,
                            "Login failed")
            /\ UNCHANGED << user, currentView, isLoading, error >>
    /\ UNCHANGED << courses, selectedCourse, showConfirmDialog,
                    enrollingCourse, started >>

\* ------------------------------------------------------------ handleLogout
\* variant: handleLogout without removeItem
TokenKeptAtLogout == token

\* localStorage.removeItem('token')
TokenAfterLogout == NoToken

\* setCourses([])
CoursesAfterLogout == << >>

\* variant: handleLogout without setCurrentView('login')
handleLogoutKeepsView ==
    /\ started
    /\ token' = NoToken
    /\ user' = NoUser
    /\ courses' = << >>
    /\ selectedCourse' = NoCourse
    /\ last' = Step("handleLogout", currentView, NoReq, NoResp, "")
    /\ UNCHANGED << currentView, isLoading, error, showConfirmDialog,
                    enrollingCourse, net, started >>

\* handleLogout is offered in every state (spec 4.3: any state --(logout)-->)
handleLogout ==
    /\ started
    /\ token' = TokenAfterLogout
    /\ user' = NoUser
    /\ currentView' = "login"
    /\ courses' = CoursesAfterLogout
    /\ selectedCourse' = NoCourse
    /\ last' = Step("handleLogout", currentView, NoReq, NoResp, "")
    /\ UNCHANGED << isLoading, error, showConfirmDialog, enrollingCourse,
                    net, started >>

\* -------------------------------------------------------------- navigation
\* renderContent: default branch, renderDashboardContent with no selected
\* course, neither loading nor error: renderCourseList
CourseListRendered ==
    /\ started
    /\ currentView \notin {"login", "register"}
    /\ selectedCourse = NoCourse
    /\ ~isLoading
    /\ error = NoError

Listed == { courses[k] : k \in 1..Len(courses) }

\* user?.role === 'teacher' ? 'teacherCourse' : 'studentCourse'
DetailView(u) == IF u.role = "teacher" THEN "teacherCourse" ELSE "studentCourse"

handleCourseSelect(course) ==
    /\ CourseListRendered
    /\ course \in Listed
    /\ selectedCourse' = course
    /\ currentView' = DetailView(user)
    /\ last' = Step("handleCourseSelect", currentView, NoReq, NoResp, "")
    /\ UNCHANGED << user, courses, isLoading, error, showConfirmDialog,
                    enrollingCourse, token, net, started >>

\* what 'Back to Courses' sets: onClick={() => setSelectedCourse(null)}
ViewAfterBack == currentView

backToCourses ==
    /\ started
    /\ currentView \notin {"login", "register"}
    /\ selectedCourse # NoCourse
    /\ selectedCourse' = NoCourse
    /\ currentView' = ViewAfterBack
    /\ last' = Step("backToCourses", currentView, NoReq, NoResp, "")
    /\ UNCHANGED << user, courses, isLoading, error, showConfirmDialog,
                    enrollingCourse, token, net, started >>

onSwitchToRegister ==
    /\ started
    /\ currentView = "login"
    /\ currentView' = "register"
    /\ last' = Step("onSwitchToRegister", currentView, NoReq, NoResp, "")
    /\ UNCHANGED << user, courses, selectedCourse, isLoading, error,
                    showConfirmDialog, enrollingCourse, token, net, started >>

\* onRegister and onSwitchToLogin
onSwitchToLogin ==
    /\ started
    /\ currentView = "register"
    /\ currentView' = "login"
    /\ last' = Step("onSwitchToLogin", currentView, NoReq, NoResp, "")
    /\ UNCHANGED << user, courses, selectedCourse, isLoading, error,
                    showConfirmDialog, enrollingCourse, token, net, started >>

\* -------------------------------------------------------------- enrollment
\* variant: the Enroll button without disabled={enrollingCourse}
EnrollButtonNeverDisabled(course) ==
    /\ CourseListRendered
    /\ course \in Listed
    /\ user.role # "teacher"
    /\ ~course.enrolled

\* the Enroll button of a card: rendered for a non-teacher on a course that
\* is not enrolled, disabled={enrollingCourse}
EnrollButtonEnabled(course) ==
    /\ CourseListRendered
    /\ course \in Listed
    /\ user.role # "teacher"
    /\ ~course.enrolled
    /\ ~enrollingCourse

enrollClick(course) ==
    /\ EnrollButtonEnabled(course)
    /\ showConfirmDialog' = course.id
    /\ last' = Step("enrollClick", currentView, NoReq, NoResp, "")
    /\ UNCHANGED << currentView, user, courses, selectedCourse, isLoading,
                    error, enrollingCourse, token, net, started >>

\* The confirmation that calls handleEnrollConfirm is not part of App.tsx.
\* Spec 4.4: "On explicit user confirmation for a specific course id" -- the
\* confirmation is offered while a confirmation is pending for a course.
ConfirmOffered ==
    /\ started
    /\ currentView \notin {"login", "register"}
    /\ showConfirmDialog # NoDialog

\* handleEnrollConfirm up to its await
handleEnrollConfirm ==
    /\ ConfirmOffered
    /\ Len(net) < MaxInFlight
    /\ enrollingCourse' = TRUE
    /\ net' = Append(net, Req("enroll", "dialog", TRUE, token, showConfirmDialog))
    /\ last' = Step("handleEnrollConfirm", currentView, NoReq, NoResp, "")
    /\ UNCHANGED << currentView, user, courses, selectedCourse, isLoading,
                    error, showConfirmDialog, token, started >>

\* variant: the refresh is issued whenever fetch resolved
EnrollRefreshesAlways(resp) == resp.net

\* variant: the success branch does not call fetchCourses
EnrollRefreshesNever(resp) == FALSE

\* if (response.ok) { ...; fetchCourses(); }
EnrollRefreshes(resp) == resp.net /\ resp.ok

\* handleEnrollConfirm after the await
handleEnrollConfirmSettle(i, resp) ==
    /\ started
    /\ i \in 1..Len(net)
    /\ net[i].kind = "enroll"
    /\ IF EnrollRefreshes(resp)
       THEN /\ isLoading' = TRUE
            /\ error' = NoError
            /\ net' = Append(Remove(net, i), CoursesRequest("enroll", token))
            /\ last' = Step("handleEnrollConfirmSettle", currentView, net[i],
                            resp, "Successfully enrolled in the course!")
       ELSE /\ net' = Remove(net, i)
            /\ last' = Step("handleEnrollConfirmSettle", currentView, net[i],
                            resp, "Failed to enroll in course")
            /\ UNCHANGED << isLoading, error >>
    \* finally
    /\ enrollingCourse' = FALSE
    /\ showConfirmDialog' = NoDialog
    /\ UNCHANGED << currentView, user, courses, selectedCourse, token, started >>

AllCourses == UNION { { l[k] : k \in 1..Len(l) } : l \in Catalogs }

Next ==
    \/ initializeSession
    \/ \E i \in 1..MaxInFlight, r \in CoursesResponses : initializeSessionSettle(i, r)
    \/ \E i \in 1..MaxInFlight, r \in CoursesResponses : fetchCoursesSettle(i, r)
    \/ onCourseCreated
    \/ handleLogin
    \/ \E i \in 1..MaxInFlight, r \in LoginResponses : handleLoginSettle(i, r)
    \/ handleLogout
    \/ \E c \in AllCourses : handleCourseSelect(c)
    \/ backToCourses
    \/ onSwitchToRegister
    \/ onSwitchToLogin
    \/ \E c \in AllCourses : enrollClick(c)
    \/ handleEnrollConfirm
    \/ \E i \in 1..MaxInFlight, r \in EnrollResponses : handleEnrollConfirmSettle(i, r)

Spec == Init /\ [][Next]_vars

\* ------------------------------------------------------------- properties
CoursesInFlight(n) == { i \in 1..Len(n) : n[i].kind = "courses" }
EnrollsInFlight(n) == { i \in 1..Len(n) : n[i].kind = "enroll" }

\* C1: right after handleLogout, from whatever state it ran in, user is
\* null, localStorage has no 'token' and the view is 'login'.
C1_LogoutClears ==
    last.op = "handleLogout" =>
        /\ user = NoUser
        /\ token = NoToken
        /\ currentView = "login"

\* handleLogout has run in a detail view while requests were in flight
C1_Witness ==
    /\ last.op = "handleLogout"
    /\ last.from \in {"teacherCourse", "studentCourse"}
    /\ net # <<>>

\* C2: selecting a course in view 'dashboard' and then pressing back leaves
\* currentView = 'dashboard' and selectedCourse null.
C2_BackReturnsToDashboard ==
    [][ ( /\ last.op = "handleCourseSelect"
          /\ last.from = "dashboard"
          /\ last'.op = "backToCourses" )
        => ( currentView' = "dashboard" /\ selectedCourse' = NoCourse ) ]_vars

\* C3: a detail view never exists without a selected course.
C3_DetailHasCourse ==
    currentView \in {"teacherCourse", "studentCourse"} => selectedCourse # NoCourse

\* a login response that carries no usable token: fetch rejected, the body
\* is not JSON, it has no token, or the token's middle segment does not decode
LoginFailed(resp) ==
    \/ ~resp.net
    \/ resp.kind # "token"
    \/ Len(resp.tok) < 2
    \/ resp.tok[2] \notin {"eyT", "eyS"}

\* C4: a failed login leaves localStorage 'token', user and currentView as
\* they were.
C4_FailedLoginLeavesState ==
    [][ ( last'.op = "handleLoginSettle" /\ LoginFailed(last'.resp) )
        => ( token' = token /\ user' = user /\ currentView' = currentView ) ]_vars

\* C5: a courses refresh that fails by a network error or a non-success
\* status sets error to the fixed message and keeps courses.
C5_FailedRefreshKeepsCourses ==
    [][ ( /\ last'.op = "fetchCoursesSettle"
          /\ (~last'.resp.net \/ ~last'.resp.ok) )
        => ( error' = FetchErrorMessage /\ courses' = courses ) ]_vars

\* C6: right after a fetchCourses call settles, exactly one of "error is
\* set" and "courses is that call's response and error is null" holds and
\* isLoading is false; and isLoading is true only while a refresh is
\* outstanding.
C6_SettleOutcome ==
    /\ last.op = "fetchCoursesSettle" =>
          /\ (error # NoError)
               # (courses = (IF last.resp.kind = "array" THEN last.resp.list ELSE <<>>)
                    /\ error = NoError)
          /\ ~isLoading
    /\ isLoading => CoursesInFlight(net) # {}

\* a refresh has delivered its list while another refresh is outstanding
C6_Witness ==
    /\ last.op = "fetchCoursesSettle"
    /\ last.resp.kind = "array"
    /\ courses = last.resp.list
    /\ courses # <<>>
    /\ CoursesInFlight(net) # {}

\* a refresh has failed while another refresh is outstanding
C6_WitnessFailed ==
    /\ last.op = "fetchCoursesSettle"
    /\ ~last.resp.net
    /\ CoursesInFlight(net) # {}

C8_EmptyAfterLogout ==
    [][ /\ last'.op = "handleLogout" => courses' = <<>>
        /\ (user = NoUser /\ courses = <<>> /\ user' = NoUser) => courses' = <<>>
      ]_vars

\* C9: a login response with a token whose middle segment decodes to
\* identity I leaves the token stored, user = I, the view 'dashboard', and a
\* GET /api/courses with that token as Bearer issued last.
C9_LoginSuccess ==
    \A I \in {Teacher, Student} :
        ( /\ last.op = "handleLoginSettle"
          /\ last.resp.net
          /\ last.resp.kind = "token"
          /\ Len(last.resp.tok) >= 2
          /\ AtobJson(last.resp.tok[2]) = I )
        => /\ token = last.resp.tok
           /\ user = I
           /\ currentView = "dashboard"
           /\ net # <<>>
           /\ net[Len(net)] = Req("courses", "effect", TRUE, last.resp.tok, 0)

\* a login as student has succeeded over a stored token of another user
C9_Witness ==
    /\ last.op = "handleLoginSettle"
    /\ last.resp.tok = TokStudent
    /\ user = Student
    /\ token = TokStudent
    /\ currentView = "dashboard"

\* C10: when the enroll POST returns a non-2xx status or throws, the
\* enrollment flow issues no courses refresh and does not change courses,
\* and afterwards enrollingCourse is false and showConfirmDialog is null.
C10_FailedEnroll ==
    [][ ( /\ last'.op = "handleEnrollConfirmSettle"
          /\ (~last'.resp.net \/ ~last'.resp.ok) )
        => ( /\ courses' = courses
             /\ Len(net') = Len(net) - 1
             /\ Cardinality(CoursesInFlight(net')) = Cardinality(CoursesInFlight(net))
             /\ ~enrollingCourse'
             /\ showConfirmDialog' = NoDialog ) ]_vars

\* an enroll POST has come back with a non-2xx status
C10_Witness ==
    /\ last.op = "handleEnrollConfirmSettle"
    /\ last.resp.net
    /\ ~last.resp.ok
    /\ last.alert = "Failed to enroll in course"
    /\ ~enrollingCourse

\* C11: when the enroll POST returns 2xx the enrollment flow issues an
\* authenticated courses refresh and afterwards enrollingCourse is false and
\* showConfirmDialog is null; no step of the enrollment flow changes courses.
C11_EnrollSuccess ==
    [][ /\ ( /\ last'.op = "handleEnrollConfirmSettle"
             /\ last'.resp.net
             /\ last'.resp.ok )
           => ( /\ net' # <<>>
                /\ net'[Len(net')] = Req("courses", "enroll", TRUE, token, 0)
                /\ Cardinality(CoursesInFlight(net'))
                     = Cardinality(CoursesInFlight(net)) + 1
                /\ isLoading'
                /\ ~enrollingCourse'
                /\ showConfirmDialog' = NoDialog )
        /\ last'.op \in {"enrollClick", "handleEnrollConfirm",
                         "handleEnrollConfirmSettle"}
           => courses' = courses
      ]_vars

\* an enroll POST has come back 2xx and its refresh is in flight
C11_Witness ==
    /\ last.op = "handleEnrollConfirmSettle"
    /\ last.resp.net
    /\ last.resp.ok
    /\ net # <<>>
    /\ net[Len(net)].origin = "enroll"
    /\ courses # <<>>

\* C12: while enrollingCourse is true no click on an Enroll button takes
\* effect: no state variable changes by it.
C12_EnrollDisabled ==
    [][ enrollingCourse => last'.op # "enrollClick" ]_vars

\* an enrollment is in flight while the list shows two cards, one of them
\* with an Enroll button
C12_Witness ==
    /\ enrollingCourse
    /\ selectedCourse = NoCourse
    /\ ~isLoading
    /\ error = NoError
    /\ user = Student
    /\ Len(courses) = 2
    /\ \E k \in 1..Len(courses) : ~courses[k].enrolled

\* C13: a courses fetch (startup or fetchCourses) whose body is not a
\* sequence sets courses to the empty sequence and completes normally: the
\* catch block does not run (error is not touched) and isLoading is cleared.
C13_NonSequenceBody ==
    [][ ( /\ last'.op \in {"fetchCoursesSettle", "initializeSessionSettle"}
          /\ last'.resp.net
          /\ last'.resp.kind = "object" )
        => ( /\ courses' = <<>>
             /\ error' = error
             /\ ~isLoading' ) ]_vars

\* fetchCourses has received an error object
C13_Witness ==
    /\ last.op = "fetchCoursesSettle"
    /\ last.resp.kind = "object"
    /\ courses = <<>>
    /\ error = NoError
    /\ user # NoUser

\* C14: localStorage 'token' changes only in handleLogin and handleLogout.
C14_TokenWriters ==
    [][ token' # token => last'.op \in {"handleLoginSettle", "handleLogout"} ]_vars

\* the enrollment flow has run to its end with a token stored
C14_Witness ==
    /\ last.op = "handleEnrollConfirmSettle"
    /\ token = TokStudent

\* C15: every change of currentView is one of the listed transitions.
C15_ListedTransitions ==
    [][ currentView' # currentView =>
        \/ /\ currentView = "login" /\ currentView' = "dashboard"
           /\ last'.op \in {"handleLoginSettle", "initializeSession"}
        \/ /\ currentView = "login" /\ currentView' = "register"
           /\ last'.op = "onSwitchToRegister"
        \/ /\ currentView = "register" /\ currentView' = "login"
           /\ last'.op = "onSwitchToLogin"
        \/ /\ currentView = "dashboard"
           /\ currentView' = (IF user.role = "teacher" THEN "teacherCourse"
                                                       ELSE "studentCourse")
           /\ last'.op = "handleCourseSelect"
        \/ /\ currentView \in {"teacherCourse", "studentCourse"}
           /\ currentView' = "dashboard"
           /\ last'.op = "backToCourses"
        \/ /\ currentView' = "login"
           /\ last'.op = "handleLogout"
      ]_vars

\* C16: no ordering guard: the response of a courses fetch that a later
\* fetch has already overtaken is still written to courses.
C16_StaleResponseWritten ==
    ( /\ last.op = "fetchCoursesSettle"
      /\ last.req.stale
      /\ last.resp.net
      /\ last.resp.kind # "notjson" )
    => courses = (IF last.resp.kind = "array" THEN last.resp.list ELSE <<>>)

\* two fetches were in flight, the later one answered first, and the
\* earlier one has now written its list
C16_Witness ==
    /\ last.op = "fetchCoursesSettle"
    /\ last.req.stale
    /\ last.resp.kind = "array"
    /\ courses = last.resp.list
    /\ courses # <<>>

\* C17 as stated: after a restore the authenticated refresh writes courses
\* only after the unauthenticated startup GET has answered.
C17_StartupAnswersFirst ==
    [][ ( /\ last'.op = "fetchCoursesSettle"
          /\ last'.resp.net
          /\ last'.resp.kind # "notjson" )
        => \A j \in 1..Len(net) : net[j].kind # "init" ]_vars

\* C17 amended: after a restore the first courses request issued is the
\* unauthenticated GET, the authenticated refresh is issued after it, and
\* courses is still empty.
C17_StartupIssuedFirst ==
    ( last.op = "initializeSession" /\ user # NoUser )
    => /\ net = << Req("init", "mount", FALSE, NoToken, 0),
                   Req("courses", "effect", TRUE, token, 0) >>
       /\ courses = <<>>

\* a teacher's session has been restored
C17_Witness ==
    /\ last.op = "initializeSession"
    /\ user = Teacher
    /\ token = TokTeacher
    /\ Len(net) = 2

\* C18: at startup, without a stored credential the view is 'login', user
\* is null and nothing is requested; with one, user is the decoded payload
\* of its middle segment and the view is 'dashboard' before any response.
C18_Startup ==
    last.op = "initializeSession" =>
        IF token = NoToken
        THEN currentView = "login" /\ user = NoUser /\ net = <<>>
        ELSE /\ user # NoUser
             /\ user = AtobJson(IF Len(token) >= 2 THEN token[2] ELSE "undefined")
             /\ currentView = "dashboard"
             /\ courses = <<>>

\* C19: user is null exactly when the view is 'login' or 'register'.
C19_UserIffLoggedInView ==
    (user = NoUser) <=> (currentView \in {"login", "register"})

\* a login response has arrived after the user went to 'register'
C19_Witness ==
    /\ last.op = "handleLoginSettle"
    /\ last.from = "register"
    /\ user # NoUser
    /\ currentView = "dashboard"

\* C20: whenever user is non-null a credential is stored and user is the
\* decoded payload of the stored credential.
C20_UserMatchesToken ==
    user # NoUser =>
        /\ token # NoToken
        /\ user = AtobJson(IF Len(token) >= 2 THEN token[2] ELSE "undefined")
====
